---- MODULE Spec2Model ----
(***************************************************************************)
(* Model of the search path of dakara-server's library application:        *)
(*   library/query_language.py  split_remaining, parse, LANGUAGE_MATCHER   *)
(*   library/views.py           SongListView / ArtistListView /            *)
(*                              WorkListView .get_queryset                 *)
(* and of the playlist application's models:                               *)
(*   playlist/models.py         PlaylistEntry.get_next, PlayerError,       *)
(*                              PlayerErrorsPool                           *)
(* A Python string is a sequence of one-character strings.                 *)
(***************************************************************************)
EXTENDS Integers, Sequences, FiniteSets, TLC

(***************************************************************************)
(* Bounds of the model.                                                    *)
(***************************************************************************)
\* longest request string built by concatenating chunks of Chunks
MaxChunks == 3
\* longest tag list the parser class hands to the view
MaxTags == 2
\* last second of the clock of the cache
MaxTime == 11
\* most errors one pool counts
MaxErrors == 2
\* most entries the playlist holds
MaxEntries == 3
\* last value of the wall clock that dates the entries
MaxDate == 2

(***************************************************************************)
(* Characters and the str methods the code uses.                           *)
(***************************************************************************)
Lowers == <<"a","b","c","d","e","f","g","h","i","j","k","l","m",
            "n","o","p","q","r","s","t","u","v","w","x","y","z">>

Uppers == <<"A","B","C","D","E","F","G","H","I","J","K","L","M",
            "N","O","P","Q","R","S","T","U","V","W","X","Y","Z">>

Digits == {"0","1","2","3","4","5","6","7","8","9"}

Range(s) == {s[i] : i \in DOMAIN s}

\* the letter U+017F (LATIN SMALL LETTER LONG S), written as an atom: re.I
\* lets it match "s" while str.lower() leaves it alone
LongS == "U+017F"

\* regex class \s, also what str.strip() removes
IsSpace(c) == c \in {" ", "\t", "\n", "\r", "\f"}

\* regex class \w
IsWord(c) ==
    c \in Range(Lowers) \cup Range(Uppers) \cup Digits \cup {"_", LongS}

\* one character of str.lower(); re.I compares characters through it
LowerChar(c) ==
    IF c \in Range(Uppers)
    THEN Lowers[CHOOSE i \in DOMAIN Uppers : Uppers[i] = c]
    ELSE c

\* str.lower()
Lower(s) == [i \in DOMAIN s |-> LowerChar(s[i])]

\* s[a..b] as a sequence, empty when b < a
Slice(s, a, b) == IF b < a THEN <<>> ELSE SubSeq(s, a, b)

\* str.strip()
Strip(s) ==
    LET keep == {i \in DOMAIN s : ~IsSpace(s[i])}
    IN  IF keep = {} THEN <<>>
        ELSE LET lo == CHOOSE i \in keep : \A j \in keep : i <= j
                 hi == CHOOSE i \in keep : \A j \in keep : j <= i
             IN  SubSeq(s, lo, hi)

\* str.replace("\\", "")
DropBackslashes(s) == SelectSeq(s, LAMBDA c : c # "\\")

(***************************************************************************)
(* KEYWORDS and LANGUAGE_MATCHER (query_language.py lines 3-9):            *)
(*   \b(artist|work|title):\s?(?:""(.+?)""|"(.+?)"|((?:\\\s|\S)+))  re.I   *)
(***************************************************************************)
KEYWORDS == << <<"a","r","t","i","s","t">>, <<"w","o","r","k">>,
              <<"t","i","t","l","e">> >>

\* the value None of an unmatched group, and of "no match"
None == [none |-> TRUE]

\* \b before position i: exactly one of s[i-1], s[i] is a word character
WordBoundary(s, i) ==
    LET before == i > 1 /\ i - 1 <= Len(s) /\ IsWord(s[i - 1])
        after == i >= 1 /\ i <= Len(s) /\ IsWord(s[i])
    IN  before # after

\* first alternative, ""(.+?)"" at p: the lazy group stops at the first
\* doubled quote that leaves it at least one character; "." is not a newline
MatchExact(s, p) ==
    IF p + 1 <= Len(s) /\ s[p] = "\"" /\ s[p + 1] = "\""
    THEN LET ends == {e \in (p + 3)..(Len(s) - 1) :
                        /\ s[e] = "\"" /\ s[e + 1] = "\""
                        /\ \A i \in (p + 2)..(e - 1) : s[i] # "\n"}
         IN  IF ends = {} THEN None
             ELSE LET e == CHOOSE x \in ends : \A y \in ends : x <= y
                  IN  [group |-> 2, value |-> SubSeq(s, p + 2, e - 1),
                       end |-> e + 2]
    ELSE None

\* second alternative, "(.+?)" at p
MatchQuoted(s, p) ==
    IF p <= Len(s) /\ s[p] = "\""
    THEN LET ends == {e \in (p + 2)..Len(s) :
                        /\ s[e] = "\""
                        /\ \A i \in (p + 1)..(e - 1) : s[i] # "\n"}
         IN  IF ends = {} THEN None
             ELSE LET e == CHOOSE x \in ends : \A y \in ends : x <= y
                  IN  [group |-> 3, value |-> SubSeq(s, p + 1, e - 1),
                       end |-> e + 1]
    ELSE None

\* end (exclusive) of the greedy run (?:\\\s|\S)+ started at p: a backslash
\* followed by a whitespace is taken as a pair, else one non-space character
RECURSIVE BareEnd(_, _)
BareEnd(s, p) ==
    IF p + 1 <= Len(s) /\ s[p] = "\\" /\ IsSpace(s[p + 1])
    THEN BareEnd(s, p + 2)
    ELSE IF p <= Len(s) /\ ~IsSpace(s[p])
         THEN BareEnd(s, p + 1)
         ELSE p

\* mutant of MatchBare: the run may be empty, (...)* for (...)+
MatchBareOrNothing(s, p) ==
    [group |-> 4, value |-> Slice(s, p, BareEnd(s, p) - 1),
     end |-> BareEnd(s, p)]

\* third alternative, ((?:\\\s|\S)+) at p
MatchBare(s, p) ==
    LET e == BareEnd(s, p)
    IN  IF e > p
        THEN [group |-> 4, value |-> SubSeq(s, p, e - 1), end |-> e]
        ELSE None

\* the alternation at p, in the regex's priority order
MatchValue(s, p) ==
    IF MatchExact(s, p) # None THEN MatchExact(s, p)
    ELSE IF MatchQuoted(s, p) # None THEN MatchQuoted(s, p)
    ELSE MatchBare(s, p)

\* re.I: the character c of the string matches the pattern letter k
SameLetter(c, k) == LowerChar(c) = k \/ (c = LongS /\ k = "s")

\* the keyword of KEYWORDS spelled at i, any case, followed by a colon
KeywordAt(s, i) ==
    {k \in DOMAIN KEYWORDS :
        /\ i + Len(KEYWORDS[k]) <= Len(s)
        /\ \A j \in DOMAIN KEYWORDS[k] : SameLetter(s[i + j - 1], KEYWORDS[k][j])
        /\ s[i + Len(KEYWORDS[k])] = ":"}

\* the whole pattern anchored at i: \s? is greedy and gives the whitespace
\* back when no alternative matches after it
MatchAt(s, i) ==
    IF WordBoundary(s, i) /\ KeywordAt(s, i) # {}
    THEN LET k == CHOOSE x \in KeywordAt(s, i) :
                     \A y \in KeywordAt(s, i) : x <= y
             n == Len(KEYWORDS[k])
             p == i + n + 1
             skip == IF p <= Len(s) /\ IsSpace(s[p])
                     THEN MatchValue(s, p + 1) ELSE None
             v == IF skip # None THEN skip ELSE MatchValue(s, p)
         IN  IF v = None THEN None
             ELSE [start |-> i, keyword |-> SubSeq(s, i, i + n - 1),
                   group |-> v.group, value |-> v.value, end |-> v.end]
    ELSE None

\* LANGUAGE_MATCHER.split(query, maxsplit=1): the leftmost match, or None
\* when split returns the one-element list [query]
FirstMatch(s) ==
    LET hits == {i \in 1..Len(s) : MatchAt(s, i) # None}
    IN  IF hits = {} THEN None
        ELSE MatchAt(s, CHOOSE i \in hits : \A j \in hits : i <= j)

(***************************************************************************)
(* split_remaining (query_language.py lines 12-44).                        *)
(***************************************************************************)
\* mutant of AppendIfAny: the test "if current_expression:" is missing
AppendAlways(result, expr) == Append(result, expr)

\* result.append(current_expression) under "if current_expression:"
AppendIfAny(result, expr) == IF expr # <<>> THEN Append(result, expr) ELSE result

\* lines 13-16: the locals before the loop
SplitStart == [result |-> <<>>, current |-> <<>>, in_quotes |-> FALSE,
               previous |-> <<>>]

\* mutant of SplitChar: a backslash is dropped but escapes nothing, every
\* space outside quotes ends the expression
SplitCharNoEscape(st, char) ==
    IF char = "\""
    THEN IF st.in_quotes
         THEN [result |-> AppendIfAny(st.result, st.current),
               current |-> <<>>, in_quotes |-> FALSE, previous |-> <<char>>]
         ELSE [result |-> AppendIfAny(st.result, Strip(st.current)),
               current |-> <<>>, in_quotes |-> TRUE, previous |-> <<char>>]
    ELSE IF char = " " /\ ~st.in_quotes
    THEN [result |-> AppendIfAny(st.result, Strip(st.current)),
          current |-> <<>>, in_quotes |-> st.in_quotes, previous |-> <<char>>]
    ELSE IF char # "\\"
    THEN [st EXCEPT !.current = Append(st.current, char),
                    !.previous = <<char>>]
    ELSE [st EXCEPT !.previous = <<char>>]

\* mutant of SplitChar: a backslash is kept in the expression
SplitCharKeepBackslash(st, char) ==
    IF char = "\""
    THEN IF st.in_quotes
         THEN [result |-> AppendIfAny(st.result, st.current),
               current |-> <<>>, in_quotes |-> FALSE, previous |-> <<char>>]
         ELSE [result |-> AppendIfAny(st.result, Strip(st.current)),
               current |-> <<>>, in_quotes |-> TRUE, previous |-> <<char>>]
    ELSE IF char = " " /\ ~st.in_quotes /\ st.previous # <<"\\">>
    THEN [result |-> AppendIfAny(st.result, Strip(st.current)),
          current |-> <<>>, in_quotes |-> st.in_quotes, previous |-> <<char>>]
    ELSE [st EXCEPT !.current = Append(st.current, char),
                    !.previous = <<char>>]

\* mutant of SplitChar: a space ends the expression inside quotes too
SplitCharSpaceInQuotes(st, char) ==
    IF char = "\""
    THEN IF st.in_quotes
         THEN [result |-> AppendIfAny(st.result, st.current),
               current |-> <<>>, in_quotes |-> FALSE, previous |-> <<char>>]
         ELSE [result |-> AppendIfAny(st.result, Strip(st.current)),
               current |-> <<>>, in_quotes |-> TRUE, previous |-> <<char>>]
    ELSE IF char = " " /\ st.previous # <<"\\">>
    THEN [result |-> AppendIfAny(st.result, Strip(st.current)),
          current |-> <<>>, in_quotes |-> st.in_quotes, previous |-> <<char>>]
    ELSE IF char # "\\"
    THEN [st EXCEPT !.current = Append(st.current, char),
                    !.previous = <<char>>]
    ELSE [st EXCEPT !.previous = <<char>>]

\* lines 18-38: one turn of the loop over the characters
SplitChar(st, char) ==
    IF char = "\""
    THEN IF st.in_quotes
         THEN [result |-> AppendIfAny(st.result, st.current),
               current |-> <<>>, in_quotes |-> FALSE, previous |-> <<char>>]
         ELSE [result |-> AppendIfAny(st.result, Strip(st.current)),
               current |-> <<>>, in_quotes |-> TRUE, previous |-> <<char>>]
    ELSE IF char = " " /\ ~st.in_quotes /\ st.previous # <<"\\">>
    THEN [result |-> AppendIfAny(st.result, Strip(st.current)),
          current |-> <<>>, in_quotes |-> st.in_quotes, previous |-> <<char>>]
    ELSE IF char # "\\"
    THEN [st EXCEPT !.current = Append(st.current, char),
                    !.previous = <<char>>]
    ELSE [st EXCEPT !.previous = <<char>>]

\* the loop of line 17 from string[i] on, st being the locals so far (the
\* test on st makes TLC compute it before it goes on)
RECURSIVE SplitLoop(_, _, _)
SplitLoop(st, string, i) ==
    IF i > Len(string) \/ st.in_quotes \notin BOOLEAN THEN st
    ELSE SplitLoop(SplitChar(st, string[i]), string, i + 1)

\* mutant of split_remaining: lines 40-42 are missing, the expression being
\* read when the string ends is lost
SplitNoLastFlush(string) == SplitLoop(SplitStart, string, 1).result

\* split_remaining(string): the loop, then lines 40-44
split_remaining(string) ==
    LET st == SplitLoop(SplitStart, string, 1)
    IN  AppendIfAny(st.result, Strip(st.current))

(***************************************************************************)
(* parse (query_language.py lines 47-95).                                  *)
(***************************************************************************)
\* the keys of the result dictionary, as the strings the code builds
Spelling ==
    [artists |-> <<"a","r","t","i","s","t","s">>,
     artists_exact |-> <<"a","r","t","i","s","t","s","_","e","x","a","c","t">>,
     works |-> <<"w","o","r","k","s">>,
     works_exact |-> <<"w","o","r","k","s","_","e","x","a","c","t">>,
     titles |-> <<"t","i","t","l","e","s">>,
     titles_exact |-> <<"t","i","t","l","e","s","_","e","x","a","c","t">>,
     remaining |-> <<"r","e","m","a","i","n","i","n","g">>]

\* lines 60-68
EmptyResult == [f \in DOMAIN Spelling |-> <<>>]

\* result.get(key): the entry spelled key, "" (None) when there is none
Get(key) ==
    IF \E f \in DOMAIN Spelling : Spelling[f] = key
    THEN CHOOSE f \in DOMAIN Spelling : Spelling[f] = key
    ELSE ""

\* result.get(key).append(v); None has no append
AppendTo(result, key, v) ==
    IF Get(key) = ""
    THEN [result |-> result, error |-> "AttributeError"]
    ELSE [result |-> [result EXCEPT ![Get(key)] = Append(@, v)],
          error |-> ""]

\* mutant of StoreValue: the two lists are taken one for the other
StoreValueSwapped(result, target, value, value_exact) ==
    IF value # <<>> /\ value_exact = <<>>
    THEN AppendTo(result, target \o <<"_","e","x","a","c","t">>, value)
    ELSE IF value_exact # <<>> /\ value = <<>>
    THEN AppendTo(result, target, value_exact)
    ELSE [result |-> result, error |-> "ValueError"]

\* lines 86-91
StoreValue(result, target, value, value_exact) ==
    IF value # <<>> /\ value_exact = <<>>
    THEN AppendTo(result, target, value)
    ELSE IF value_exact # <<>> /\ value = <<>>
    THEN AppendTo(result, target \o <<"_","e","x","a","c","t">>, value_exact)
    ELSE [result |-> result, error |-> "ValueError"]

\* mutant of ExtendRemaining: the fragment is kept whole, not tokenized
ExtendRemainingWhole(result, fragment) ==
    IF fragment # <<>>
    THEN [result EXCEPT !.remaining = Append(@, fragment)]
    ELSE result

\* mutant of ExtendRemaining: the tokens go to the front of 'remaining'
ExtendRemainingFront(result, fragment) ==
    IF fragment # <<>>
    THEN [result EXCEPT !.remaining = split_remaining(fragment) \o @]
    ELSE result

\* lines 83-84 and 73-74: tokens of a fragment go to the end of 'remaining'
ExtendRemaining(result, fragment) ==
    IF fragment # <<>>
    THEN [result EXCEPT !.remaining = @ \o split_remaining(fragment)]
    ELSE result

\* mutant of ParseMatch: an open double quote shields the keyword, whose
\* text goes to 'remaining' with the text before it
ParseMatchShielded(result, query, m) ==
    LET remaining == Strip(Slice(query, 1, m.start - 1))
        target == Lower(Strip(m.keyword) \o <<"s">>)
        value_exact == Strip(IF m.group = 2 THEN m.value ELSE <<>>)
        value == Strip(DropBackslashes(IF m.group \in {3, 4}
                                       THEN m.value ELSE <<>>))
        stored == StoreValue(ExtendRemaining(result, remaining),
                             target, value, value_exact)
        shielded == SplitLoop(SplitStart, remaining, 1).in_quotes
    IN  IF shielded
        THEN [result |-> ExtendRemaining(result,
                             Strip(Slice(query, 1, m.end - 1))),
              error |-> "",
              query |-> Strip(Slice(query, m.end, Len(query)))]
        ELSE [result |-> stored.result, error |-> stored.error,
              query |-> Strip(Slice(query, m.end, Len(query)))]

\* mutant of ParseMatch: the next turn scans the same string again
ParseMatchStuck(result, query, m) ==
    LET remaining == Strip(Slice(query, 1, m.start - 1))
        target == Lower(Strip(m.keyword) \o <<"s">>)
        value_exact == Strip(IF m.group = 2 THEN m.value ELSE <<>>)
        value == Strip(DropBackslashes(IF m.group \in {3, 4}
                                       THEN m.value ELSE <<>>))
        stored == StoreValue(ExtendRemaining(result, remaining),
                             target, value, value_exact)
    IN  [result |-> stored.result, error |-> stored.error, query |-> query]

\* lines 77-93: one turn of the loop on the match m of query
ParseMatch(result, query, m) ==
    LET remaining == Strip(Slice(query, 1, m.start - 1))
        target == Lower(Strip(m.keyword) \o <<"s">>)
        value_exact == Strip(IF m.group = 2 THEN m.value ELSE <<>>)
        value == Strip(DropBackslashes(IF m.group \in {3, 4}
                                       THEN m.value ELSE <<>>))
        stored == StoreValue(ExtendRemaining(result, remaining),
                             target, value, value_exact)
    IN  [result |-> stored.result, error |-> stored.error,
         query |-> Strip(Slice(query, m.end, Len(query)))]

(***************************************************************************)
(* The request strings the model feeds to the views.                       *)
(***************************************************************************)
\* the pieces short request strings are built from
Chunks ==
    {<<"w","o","r","k",":">>, <<"A","r","t","i","s","t",":">>,
     <<"t","i","t","l","e",":">>, <<"\"">>, <<"\"","\"">>, <<"\\">>,
     <<" ">>, <<"x">>, <<"y">>}

\* every concatenation of at most n chunks
RECURSIVE ChunkStrings(_)
ChunkStrings(n) ==
    IF n = 0 THEN {<<>>}
    ELSE LET shorter == ChunkStrings(n - 1)
         IN  shorter \cup {s \o c : s \in shorter, c \in Chunks}

\* work:""Opening Theme"" artist:foo tag:favorite
E2EQuery ==
    <<"w","o","r","k",":","\"","\"","O","p","e","n","i","n","g"," ","T","h",
      "e","m","e","\"","\""," ","a","r","t","i","s","t",":","f","o","o"," ",
      "t","a","g",":","f","a","v","o","r","i","t","e">>

\* artist:Foo title:"Bar Baz"
QuotedTitleQuery ==
    <<"a","r","t","i","s","t",":","F","o","o"," ","t","i","t","l","e",":",
      "\"","B","a","r"," ","B","a","z","\"">>

\* hello\ world artist:Foo
EscapedSpaceQuery ==
    <<"h","e","l","l","o","\\"," ","w","o","r","l","d"," ","a","r","t","i",
      "s","t",":","F","o","o">>

\* p work:a q title:""b c"" r work:d
InterleavedQuery ==
    <<"p"," ","w","o","r","k",":","a"," ","q"," ","t","i","t","l","e",":",
      "\"","\"","b"," ","c","\"","\""," ","r"," ","w","o","r","k",":","d">>

\* artist:a artist:""b"" title:c
TwoArtistsQuery ==
    <<"a","r","t","i","s","t",":","a"," ","a","r","t","i","s","t",":","\"",
      "\"","b","\"","\""," ","t","i","t","l","e",":","c">>

\* work:""a"" title:"b c" artist:d
ThreeFormsQuery ==
    <<"w","o","r","k",":","\"","\"","a","\"","\""," ","t","i","t","l","e",
      ":","\"","b"," ","c","\""," ","a","r","t","i","s","t",":","d">>

\* arti<U+017F>t:foo
LongSQuery ==
    <<"a","r","t","i",LongS,"t",":","f","o","o">>

\* longer request strings, among them the examples of the documentation
Samples ==
    {E2EQuery, QuotedTitleQuery, EscapedSpaceQuery,
     InterleavedQuery, TwoArtistsQuery, LongSQuery, ThreeFormsQuery,
     <<"p"," ","w","o","r","k",":","a"," ","q"," ","w","o","r","k",":","b",
       " ","r">>,
     <<"w","o","r","k",":","\"","\""," ","\"","\"">>,
     <<"\"","p"," ","w","o","r","k",":","a"," ","q","\"">>,
     <<"\"","p"," ","q">>,
     <<"w","o","r","k",":"," "," "," ">>,
     <<"p","\\"," ","q"," ","t","i","t","l","e",":","a","\\"," ","b">>,
     <<"p","\t","q"," ","a","r","t","i","s","t",":","a","\t">>,
     <<"W","O","R","K",":","a"," ","T","i","t","l","e",":","b">>,
     <<"\""," ","p"," ","\""," ","q">>,
     <<"w","o","r","k",":","\"","\"","a","\"","\""," ","\"","b"," ","c",
       "\""," ","d">>,
     <<"t","i","t","l","e",":","x","\\"," "," ","y","\\"," ","z">>}

Inputs == ChunkStrings(MaxChunks) \cup Samples

(***************************************************************************)
(* django.db.models.Q as the views use it: Q(lookup=value), & and |.       *)
(***************************************************************************)
\* Q(lookup=value)
Leaf(lookup, value) ==
    [kind |-> "leaf", lookup |-> lookup, value |-> value, args |-> <<>>]

Node(kind, args) == [kind |-> kind, lookup |-> "", value |-> <<>>, args |-> args]

\* Q()
EmptyQ == Node("and", <<>>)

\* what a Q gives to a combination of connector kind: its children when it
\* has that connector, else itself
Children(q, kind) == IF q.kind = kind THEN q.args ELSE <<q>>

\* a & b
QAnd(a, b) ==
    IF b = EmptyQ THEN a
    ELSE IF a = EmptyQ THEN b
    ELSE Node("and", Children(a, "and") \o Children(b, "and"))

\* a | b
QOr(a, b) ==
    IF b = EmptyQ THEN a
    ELSE IF a = EmptyQ THEN b
    ELSE Node("or", Children(a, "or") \o Children(b, "or"))

\* one operation of a QuerySet chain
Op(op, q) == [op |-> op, q |-> q]

True == <<"T","r","u","e">>

(***************************************************************************)
(* The parser class the views import (library.query_language               *)
(* .QueryLanguageParser).  Its keyword pass is parse above; the tags and   *)
(* the work type terms it reports are inputs of the model.                 *)
(***************************************************************************)
TagName(i) == <<"T","A","G">> \o <<<<"1","2","3","4","5","6","7","8","9">>[i]>>

\* the tag lists the parser may report: the first n tags, n <= MaxTags
TagLists == {[i \in 1..n |-> TagName(i)] : n \in 0..MaxTags}

Wt1 == <<"w","t","1">>

Wt2 == <<"w","t","2">>

\* the work type terms the parser may report, as the items of res["work_type"]
WorkTypeChoices ==
    { <<>>,
      << [query_name |-> Wt1, contains |-> <<<<"k">>>>, exact |-> <<>>] >>,
      << [query_name |-> Wt1, contains |-> <<<<"k">>>>, exact |-> <<<<"m">>>>],
         [query_name |-> Wt2, contains |-> <<>>, exact |-> <<<<"n">>>>] >> }

\* the nested mapping parse() of the class returns
QueryLanguageParserResult(parsed, tag, work_type) ==
    [artist |-> [contains |-> parsed.artists, exact |-> parsed.artists_exact],
     work |-> [contains |-> parsed.works, exact |-> parsed.works_exact],
     title |-> [contains |-> parsed.titles, exact |-> parsed.titles_exact],
     work_type |-> work_type,
     remaining |-> parsed.remaining,
     tag |-> tag]

(***************************************************************************)
(* SongListView.get_queryset (views.py lines 57-164).                      *)
(***************************************************************************)
\* mutant of WorkTitle: the alternative titles are not searched
WorkTitleOnly(mode, value) == Leaf("works__title__" \o mode, value)

\* lines 97-98, 103-104, 112-115, 123-124: title of a work or of its
\* alternative titles
WorkTitle(mode, value) ==
    QOr(Leaf("works__title__" \o mode, value),
        Leaf("works__alternative_title__title__" \o mode, value))

\* lines 110-118 and 121-127: the group of one keyword of a work type
WorkTypeGroup(mode, keyword, query_name) ==
    QAnd(WorkTitle(mode, keyword),
         Leaf("works__work_type__query_name", query_name))

\* lines 109-127: the groups of one item of res["work_type"]
WorkTypeGroups(item) ==
    [i \in DOMAIN item.contains |->
        WorkTypeGroup("icontains", item.contains[i], item.query_name)]
    \o [i \in DOMAIN item.exact |->
        WorkTypeGroup("iexact", item.exact[i], item.query_name)]

\* lines 108-127: the loop over res["work_type"].items()
RECURSIVE AllWorkTypeGroups(_)
AllWorkTypeGroups(items) ==
    IF items = <<>> THEN <<>>
    ELSE WorkTypeGroups(Head(items)) \o AllWorkTypeGroups(Tail(items))

\* lines 137-145: the group of one unspecific term
RemainGroup(remain) ==
    QOr(QOr(QOr(QOr(QOr(QOr(
        Leaf("title__icontains", remain),
        Leaf("artists__name__icontains", remain)),
        Leaf("works__title__icontains", remain)),
        Leaf("works__alternative_title__title__icontains", remain)),
        Leaf("version__icontains", remain)),
        Leaf("detail__icontains", remain)),
        Leaf("detail_video__icontains", remain))

\* query_list after lines 80-145
QueryList(res) ==
    [i \in DOMAIN res.title.contains |->
        Leaf("title__icontains", res.title.contains[i])]
    \o [i \in DOMAIN res.title.exact |->
        Leaf("title__iexact", res.title.exact[i])]
    \o [i \in DOMAIN res.work.contains |->
        WorkTitle("icontains", res.work.contains[i])]
    \o [i \in DOMAIN res.work.exact |->
        WorkTitle("iexact", res.work.exact[i])]
    \o AllWorkTypeGroups(res.work_type)
    \o [i \in DOMAIN res.remaining |-> RemainGroup(res.remaining[i])]

\* query_list_many after lines 81-87 and 147-149
QueryListMany(res) ==
    [i \in DOMAIN res.artist.contains |->
        Leaf("artists__name__icontains", res.artist.contains[i])]
    \o [i \in DOMAIN res.artist.exact |->
        Leaf("artists__name__iexact", res.artist.exact[i])]
    \o [i \in DOMAIN res.tag |-> Leaf("tags__name", res.tag[i])]

\* lines 152-154: filter_query = Q(); for item in query_list: filter_query &= item
RECURSIVE FilterQuery(_)
FilterQuery(query_list) ==
    IF query_list = <<>> THEN EmptyQ
    ELSE QAnd(FilterQuery(SubSeq(query_list, 1, Len(query_list) - 1)),
              query_list[Len(query_list)])

\* mutant of ApplyFilters: the items of query_list_many share one filter()
ApplyFiltersMerged(qs, query_list, query_list_many) ==
    qs \o <<Op("filter", FilterQuery(query_list)),
            Op("filter", FilterQuery(query_list_many))>>

\* mutant of ApplyFilters: the items of query_list_many are applied first
ApplyFiltersManyFirst(qs, query_list, query_list_many) ==
    (qs \o [i \in DOMAIN query_list_many |->
                Op("filter", query_list_many[i])])
    \o <<Op("filter", FilterQuery(query_list))>>

\* lines 156-159: one filter() with the conjunction, then one per item of
\* query_list_many
ApplyFilters(qs, query_list, query_list_many) ==
    Append(qs, Op("filter", FilterQuery(query_list)))
    \o [i \in DOMAIN query_list_many |-> Op("filter", query_list_many[i])]

\* mutant of DistinctOrdered: distinct() is not called
OrderedOnly(qs) == Append(qs, Op("order_by", Leaf("title", <<>>)))

\* line 164: query_set.distinct().order_by(Lower("title"))
DistinctOrdered(qs) ==
    qs \o <<Op("distinct", EmptyQ), Op("order_by", Leaf("title", <<>>))>>

\* lines 60-65: all the songs, less those of a disabled tag for plain users
SongsFor(is_manager) ==
    IF is_manager THEN <<>>
    ELSE <<Op("exclude", Leaf("tags__disabled", True))>>

(***************************************************************************)
(* parse as one function, and the objects its calls create.                *)
(***************************************************************************)
\* lines 70-95: the loop from the given result and string on; the answer is
\* the dictionary and the exception that ended the call ("" when it returns)
RECURSIVE ParseLoop(_, _)
ParseLoop(res, string) ==
    LET m == FirstMatch(string)
        turn == ParseMatch(res, string, m)
    IN  IF m = None
        THEN [result |-> ExtendRemaining(res, string), error |-> ""]
        ELSE IF turn.error # ""
        THEN [result |-> turn.result, error |-> turn.error]
        ELSE ParseLoop(turn.result, turn.query)

\* parse(query), lines 47-95
parse(string) == ParseLoop(EmptyResult, string)

\* the two threads that call the functions
Callers == {1, 2}

\* the strings they pass
CallInputs ==
    {<<"x"," ","y">>,
     <<"\"","p"," ","q","\""," ","x">>,
     <<"w","o","r","k",":","a"," ","x">>,
     <<"x"," ","t","i","t","l","e",":","\"","\"","b","\"","\""," ","y">>,
     <<"w","o","r","k",":","\\">>}

\* mutant of Alloc: the result is one object kept between the calls (a
\* module-level or default-argument value)
AllocShared(objects) == 1

\* the object a list or dict display creates: one that did not exist before
Alloc(objects) == Len(objects) + 1

\* the objects after a write of value v to the object ref
Store(objects, ref, v) ==
    IF ref = Len(objects) + 1 THEN Append(objects, v)
    ELSE [objects EXCEPT ![ref] = v]

\* a call not begun yet of function fn on string
IdleCall(fn, string) ==
    [fn |-> fn, input |-> string, pc |-> "idle", ref |-> 0, query |-> <<>>,
     pos |-> 1, current |-> <<>>, in_quotes |-> FALSE, previous |-> <<>>,
     error |-> "", overlap |-> FALSE]

(***************************************************************************)
(* Player errors (playlist/models.py lines 224-335) and the cache they     *)
(* live in: cache.set stores a pickled copy of the value with the time it  *)
(* expires at, cache.get gives back a new object or None.                  *)
(***************************************************************************)
\* PlayerError.PLAYER_ERROR_TIME_OF_LIFE
PLAYER_ERROR_TIME_OF_LIFE == 10

\* the requests that use the pool; the error of request r is about song r
Requests == {1}

\* the ids an error can get
ErrorIds == 0..(MaxErrors - 1)

\* PlayerError(id, song, error_message)
PlayerError(id, song) == [id |-> id, song |-> song]

\* PlayerErrorsPool.__init__ with its default arguments: ids_pool is the
\* list object of the default argument, shared by all the pools made so
PlayerErrorsPool == [shared |-> TRUE, ids_pool |-> <<>>, count |-> 0,
                     temp_pool |-> <<>>]

\* self.ids_pool of pool: the default list or the list of its own
IdsPool(pool, default) == IF pool.shared THEN default ELSE pool.ids_pool

\* the copy of pool that cache.set stores
Pickled(pool, default) ==
    [shared |-> FALSE, ids_pool |-> IdsPool(pool, default),
     count |-> pool.count, temp_pool |-> pool.temp_pool]

\* the entries of the errors after error.save() at time t for each error of
\* temp_pool (lines 310-311 and 254-258)
SaveErrors(errors, temp_pool, t) ==
    [id \in DOMAIN errors |->
        IF \E k \in DOMAIN temp_pool : temp_pool[k].id = id
        THEN LET k == CHOOSE x \in DOMAIN temp_pool :
                         /\ temp_pool[x].id = id
                         /\ \A y \in DOMAIN temp_pool :
                              temp_pool[y].id = id => y <= x
             IN  [error |-> temp_pool[k],
                  expires |-> t + PLAYER_ERROR_TIME_OF_LIFE]
        ELSE errors[id]]

\* PlayerError.get(id) at time t, lines 247-252
PlayerErrorGet(errors, id, t) ==
    IF id \in DOMAIN errors /\ errors[id] # None /\ errors[id].expires > t
    THEN errors[id].error
    ELSE None

\* PlayerErrorsPool.clean, lines 324-330
Clean(pool, errors, t) ==
    [pool EXCEPT !.ids_pool =
        SelectSeq(pool.ids_pool,
                  LAMBDA id : PlayerErrorGet(errors, id, t) # None)]

(***************************************************************************)
(* PlaylistEntry (playlist/models.py lines 13-51).  The table is the       *)
(* sequence of its rows, the primary key of a row being its place.         *)
(***************************************************************************)
\* a new row: date_created is the wall clock at creation (auto_now_add)
PlaylistEntry(date) == [date_created |-> date, was_played |-> FALSE]

\* lines 38-44: the primary keys of cls.objects.exclude(...)
Unplayed(table, entry_id) ==
    {pk \in DOMAIN table : ~table[pk].was_played /\ pk # entry_id}

\* PlaylistEntry.get_next(entry_id), lines 31-51, entry_id 0 standing for
\* None: the queryset order_by returns at line 46 is dropped, and first()
\* on a queryset without ordering takes the least primary key
get_next(table, entry_id) ==
    IF Unplayed(table, entry_id) = {} THEN None
    ELSE [pk |-> CHOOSE pk \in Unplayed(table, entry_id) :
                     \A other \in Unplayed(table, entry_id) : pk <= other]

(***************************************************************************)
(* State: one request to one list view.                                    *)
(***************************************************************************)
VARIABLES
    view,          \* "song" (SongListView) or "artist" (ArtistListView)
    is_manager,    \* user.is_superuser or user.is_library_manager
    has_query,     \* "query" in request.query_params
    input,         \* request.query_params.get("query"), <<>> when absent
    pc,            \* "start", "parse", "parsed", "raised", "done"
    query,         \* parse: the string still to scan
    result,        \* parse: the result dictionary
    error,         \* the exception that ended the request, "" when none
    matches,       \* history: the splits parse made, oldest first
    query_set,     \* the operations chained on the QuerySet, in order
    query_parsed,  \* self.query_parsed
    heap,          \* the result objects of the concurrent calls, by identity
    calls,         \* the concurrent calls of parse and split_remaining
    now,           \* the clock of the cache, in seconds
    cache_pool,    \* the cache entry 'player_error_pool', None when absent
    cache_errors,  \* the cache entries 'player_error_<id>', None when absent
    default_ids,   \* the list object of __init__'s default argument ids_pool
    pools,         \* the pool object each request holds, None before it has one
    saved_at,      \* history: when the error of each id was added and saved
    entries,       \* the rows of PlaylistEntry, by primary key
    clock,         \* the wall clock that dates new rows
    asked,         \* the last call of get_next: its entry_id and the rows
                   \* it read, None before
    next_entry,    \* what that call returned: the row of a primary key or None
    race           \* the two requests that report an error at once: how far
                   \* each is, the pool it holds, the song and id of its error

vars == <<view, is_manager, has_query, input, pc, query, result, error,
          matches, query_set, query_parsed, heap, calls,
          now, cache_pool, cache_errors, default_ids, pools, saved_at,
          entries, clock, asked, next_entry, race>>

\* the state of the playlist
playlistVars == <<entries, clock, asked, next_entry>>

\* the state of the player errors
playerVars == <<now, cache_pool, cache_errors, default_ids, pools, saved_at>>

\* the state of the concurrent calls
callVars == <<heap, calls>>

\* the state of one request to a list view
searchVars == <<view, is_manager, has_query, input, pc, query, result, error,
                matches, query_set, query_parsed>>

\* the state a request to a list view does not touch
outsideSearch == <<callVars, playerVars, playlistVars, race>>

\* the state the concurrent calls do not touch
outsideCalls == <<searchVars, playerVars, playlistVars, race>>

\* the state the player errors do not touch
outsidePlayer == <<searchVars, callVars, playlistVars, race>>

\* the state the playlist does not touch
outsidePlaylist == <<searchVars, callVars, playerVars, race>>

\* an empty playlist
NoPlaylist ==
    /\ entries = <<>>
    /\ clock = 0
    /\ asked = None
    /\ next_entry = None

\* the two requests that report an error at once
Racers == {1, 2}

\* the songs an error can be about
Songs == {1, 2}

\* a racer that has not called get_or_create yet
Waiting == [step |-> "get_or_create", pool |-> None, id |-> -1, song |-> 0]

\* no request reports an error
NoRace == race = [r \in Racers |-> Waiting]

\* the state the racers do not touch
outsideRace == <<searchVars, callVars, playlistVars, pools, saved_at, now>>

\* an empty cache in a process that made no pool yet
NoPlayer ==
    /\ now = 0
    /\ cache_pool = None
    /\ cache_errors = [id \in ErrorIds |-> None]
    /\ default_ids = <<>>
    /\ pools = [r \in Requests |-> None]
    /\ saved_at = [id \in ErrorIds |-> -1]

\* no concurrent call
NoCalls == [c \in Callers |-> IdleCall("parse", <<>>)]

Init ==
    /\ view \in {"song", "artist"}
    /\ is_manager \in (IF view = "song" THEN BOOLEAN ELSE {FALSE})
    /\ has_query \in BOOLEAN
    /\ input \in (IF has_query THEN Inputs ELSE {<<>>})
    /\ pc = "start"
    /\ query = <<>>
    /\ result = EmptyResult
    /\ error = ""
    /\ matches = <<>>
    /\ query_set = <<>>
    /\ query_parsed = None
    /\ heap = <<>>
    /\ calls = NoCalls
    /\ NoPlayer
    /\ NoPlaylist
    /\ NoRace

\* SongListView.get_queryset, lines 60-79: up to the call of the parser
SongStart ==
    /\ pc = "start" /\ view = "song"
    /\ IF ~has_query
       THEN /\ query_set' = Append(SongsFor(is_manager),
                                   Op("order_by", Leaf("title", <<>>)))
            /\ pc' = "done"
            /\ UNCHANGED query
       ELSE IF input = <<>>
       THEN /\ query_set' = DistinctOrdered(SongsFor(is_manager))
            /\ pc' = "done"
            /\ UNCHANGED query
       ELSE /\ query_set' = SongsFor(is_manager)
            /\ pc' = "parse"
            /\ query' = input
    /\ UNCHANGED <<view, is_manager, has_query, input, result, error,
                   matches, query_parsed>>
    /\ UNCHANGED outsideSearch

\* parse, lines 70-71 and 77-93: one turn of the loop that finds a keyword
ParseKeyword ==
    /\ pc = "parse"
    /\ FirstMatch(query) # None
    /\ LET m == FirstMatch(query)
           turn == ParseMatch(result, query, m)
       IN  /\ result' = turn.result
           /\ error' = turn.error
           /\ matches' = Append(matches,
                            [before |-> Slice(query, 1, m.start - 1),
                             text |-> Slice(query, m.start, m.end - 1),
                             after |-> Slice(query, m.end, Len(query)),
                             keyword |-> m.keyword,
                             group |-> m.group,
                             value |-> m.value])
           /\ IF turn.error # ""
              THEN pc' = "raised" /\ UNCHANGED query
              ELSE pc' = "parse" /\ query' = turn.query
    /\ UNCHANGED <<view, is_manager, has_query, input, query_set,
                   query_parsed>>
    /\ UNCHANGED outsideSearch

\* parse, lines 70-75 and 95: the turn that finds no keyword, and the return
ParseRest ==
    /\ pc = "parse"
    /\ FirstMatch(query) = None
    /\ result' = ExtendRemaining(result, query)
    /\ pc' = "parsed"
    /\ UNCHANGED <<view, is_manager, has_query, input, query, error,
                   matches, query_set, query_parsed>>
    /\ UNCHANGED outsideSearch

\* SongListView.get_queryset, lines 79-164: from the parser's answer on
SongSearch ==
    /\ pc = "parsed" /\ view = "song"
    /\ \E tag \in TagLists, work_type \in WorkTypeChoices :
         LET res == QueryLanguageParserResult(result, tag, work_type)
         IN  /\ query_set' = DistinctOrdered(
                    ApplyFilters(query_set, QueryList(res), QueryListMany(res)))
             /\ query_parsed' = res
    /\ pc' = "done"
    /\ UNCHANGED <<view, is_manager, has_query, input, query, result, error,
                   matches>>
    /\ UNCHANGED outsideSearch

\* ArtistListView.get_queryset, lines 204-233
ArtistGetQueryset ==
    /\ pc = "start" /\ view = "artist"
    /\ IF ~has_query
       THEN /\ query_set' = <<Op("order_by", Leaf("name", <<>>))>>
            /\ UNCHANGED query_parsed
       ELSE IF input = <<>>
       THEN /\ query_set' = <<Op("order_by", Leaf("name", <<>>))>>
            /\ UNCHANGED query_parsed
       ELSE LET res == split_remaining(input)
                query_list == [i \in DOMAIN res |->
                                  Leaf("name__icontains", res[i])]
            IN  /\ query_set' = <<Op("filter", FilterQuery(query_list)),
                                  Op("order_by", Leaf("name", <<>>))>>
                /\ query_parsed' = [remaining |-> res]
    /\ pc' = "done"
    /\ UNCHANGED <<view, is_manager, has_query, input, query, result, error,
                   matches>>
    /\ UNCHANGED outsideSearch

Next ==
    \/ SongStart
    \/ ParseKeyword
    \/ ParseRest
    \/ SongSearch
    \/ ArtistGetQueryset

Spec == Init /\ [][Next]_vars

\* what a turn of parse's loop does to pc and query: the loop goes on with a
\* piece of the string it scanned, returns or raises.  From pc = "parse"
\* the steps of Next are ParseKeyword and ParseRest, one of them is enabled,
\* and both are steps of this kind.
ParseTurn ==
    /\ pc = "parse"
    /\ pc' \in {"parse", "parsed", "raised"}
    /\ \E a \in 1..(Len(query) + 1), b \in 0..Len(query) :
         query' = Slice(query, a, b)

\* a request of a plain user to the song view, with a query string
ParseInit == Init /\ view = "song" /\ ~is_manager /\ has_query

\* the steps of that request up to the return of parse
ParseNext ==
    \/ SongStart
    \/ ParseKeyword
    \/ ParseRest

\* parse on every request string; the thread that runs it is not stopped in
\* the middle of the loop: a call that has begun makes its next turn
FairSpec == ParseInit /\ [][ParseNext]_vars /\ WF_<<pc, query>>(ParseTurn)

(***************************************************************************)
(* Two threads that call parse or split_remaining at the same time.  A     *)
(* step is a turn of parse's loop or one character of split_remaining's.   *)
(***************************************************************************)
\* no request to a list view is under way
NoSearch ==
    /\ view = "song" /\ is_manager = FALSE /\ has_query = FALSE
    /\ input = <<>> /\ pc = "done" /\ query = <<>> /\ result = EmptyResult
    /\ error = "" /\ matches = <<>> /\ query_set = <<>>
    /\ query_parsed = None

ConcInit ==
    /\ NoSearch
    /\ NoPlayer
    /\ NoPlaylist
    /\ NoRace
    /\ heap = <<>>
    /\ calls \in [Callers -> {IdleCall(fn, string) :
                                fn \in {"parse", "split_remaining"},
                                string \in CallInputs}]

\* the call begins: "result = {...}" (parse, lines 60-68) or "result = []"
\* and the other locals (split_remaining, lines 13-16)
Call(c) ==
    /\ calls[c].pc = "idle"
    /\ heap' = Store(heap, Alloc(heap),
                     IF calls[c].fn = "parse" THEN EmptyResult ELSE <<>>)
    /\ calls' = [calls EXCEPT ![c] =
            [@ EXCEPT !.pc = "running", !.ref = Alloc(heap),
                      !.query = calls[c].input,
                      !.overlap = \E d \in Callers : calls[d].pc = "running"]]
    /\ UNCHANGED outsideCalls

\* parse, lines 70-71 and 77-93, on the thread's own query and result
CallParseKeyword(c) ==
    /\ calls[c].pc = "running" /\ calls[c].fn = "parse"
    /\ FirstMatch(calls[c].query) # None
    /\ LET turn == ParseMatch(heap[calls[c].ref], calls[c].query,
                              FirstMatch(calls[c].query))
       IN  /\ heap' = Store(heap, calls[c].ref, turn.result)
           /\ calls' = [calls EXCEPT ![c] =
                  IF turn.error # ""
                  THEN [@ EXCEPT !.pc = "raised", !.error = turn.error]
                  ELSE [@ EXCEPT !.query = turn.query]]
    /\ UNCHANGED outsideCalls

\* parse, lines 70-75 and 95
CallParseRest(c) ==
    /\ calls[c].pc = "running" /\ calls[c].fn = "parse"
    /\ FirstMatch(calls[c].query) = None
    /\ heap' = Store(heap, calls[c].ref,
                     ExtendRemaining(heap[calls[c].ref], calls[c].query))
    /\ calls' = [calls EXCEPT ![c].pc = "returned"]
    /\ UNCHANGED outsideCalls

\* split_remaining, lines 17-38: one character
CallSplitChar(c) ==
    /\ calls[c].pc = "running" /\ calls[c].fn = "split_remaining"
    /\ calls[c].pos <= Len(calls[c].input)
    /\ LET st == SplitChar([result |-> heap[calls[c].ref],
                            current |-> calls[c].current,
                            in_quotes |-> calls[c].in_quotes,
                            previous |-> calls[c].previous],
                           calls[c].input[calls[c].pos])
       IN  /\ heap' = Store(heap, calls[c].ref, st.result)
           /\ calls' = [calls EXCEPT ![c] =
                  [@ EXCEPT !.pos = @ + 1, !.current = st.current,
                            !.in_quotes = st.in_quotes,
                            !.previous = st.previous]]
    /\ UNCHANGED outsideCalls

\* split_remaining, lines 40-44
CallSplitReturn(c) ==
    /\ calls[c].pc = "running" /\ calls[c].fn = "split_remaining"
    /\ calls[c].pos > Len(calls[c].input)
    /\ heap' = Store(heap, calls[c].ref,
                     AppendIfAny(heap[calls[c].ref], Strip(calls[c].current)))
    /\ calls' = [calls EXCEPT ![c].pc = "returned"]
    /\ UNCHANGED outsideCalls

ConcNext ==
    \E c \in Callers :
        \/ Call(c)
        \/ CallParseKeyword(c)
        \/ CallParseRest(c)
        \/ CallSplitChar(c)
        \/ CallSplitReturn(c)

ConcSpec == ConcInit /\ [][ConcNext]_vars

(***************************************************************************)
(* The requests that report and read player errors.  A step is one call   *)
(* of a method of PlayerErrorsPool, a second of the clock, or the loss of  *)
(* the pool's cache entry (its timeout, an eviction, a restart).           *)
(***************************************************************************)
PlayerInit ==
    /\ NoSearch /\ heap = <<>> /\ calls = NoCalls /\ NoPlayer /\ NoPlaylist
    /\ NoRace

\* PlayerErrorsPool.get_or_create, lines 287-302: a new pool when the cache
\* has none; else the cached one, cleaned and saved
GetOrCreate(r) ==
    /\ IF cache_pool = None
       THEN /\ pools' = [pools EXCEPT ![r] = PlayerErrorsPool]
            /\ UNCHANGED <<cache_pool, cache_errors>>
       ELSE LET pool == Clean(cache_pool, cache_errors, now)
            IN  /\ cache_pool' = Pickled(pool, default_ids)
                /\ cache_errors' = SaveErrors(cache_errors, pool.temp_pool, now)
                /\ pools' = [pools EXCEPT ![r] =
                                [pool EXCEPT !.temp_pool = <<>>]]
    /\ UNCHANGED <<now, default_ids, saved_at>>
    /\ UNCHANGED outsidePlayer

\* PlayerErrorsPool.add, lines 316-322
Add(r) ==
    /\ pools[r] # None
    /\ pools[r].count < MaxErrors
    /\ Len(IdsPool(pools[r], default_ids)) <= MaxErrors
    /\ LET pool == pools[r]
           new_error == PlayerError(pool.count, r)
       IN  /\ pools' = [pools EXCEPT ![r] =
                  [pool EXCEPT
                      !.temp_pool = Append(@, new_error),
                      !.ids_pool = IF pool.shared THEN @
                                   ELSE Append(@, pool.count),
                      !.count = @ + 1]]
           /\ default_ids' = IF pool.shared
                             THEN Append(default_ids, pool.count)
                             ELSE default_ids
    /\ UNCHANGED <<now, cache_pool, cache_errors, saved_at>>
    /\ UNCHANGED outsidePlayer

\* PlayerErrorsPool.save, lines 304-314
Save(r) ==
    /\ pools[r] # None
    /\ cache_pool' = Pickled(pools[r], default_ids)
    /\ cache_errors' = SaveErrors(cache_errors, pools[r].temp_pool, now)
    /\ pools' = [pools EXCEPT ![r].temp_pool = <<>>]
    /\ saved_at' = [id \in ErrorIds |->
                       IF \E k \in DOMAIN pools[r].temp_pool :
                              pools[r].temp_pool[k].id = id
                       THEN now ELSE saved_at[id]]
    /\ UNCHANGED <<now, default_ids>>
    /\ UNCHANGED outsidePlayer

\* a second passes; the entries whose time has come are gone
Tick ==
    /\ now < MaxTime
    /\ now' = now + 1
    /\ cache_errors' = [id \in ErrorIds |->
                           IF PlayerErrorGet(cache_errors, id, now + 1) = None
                           THEN None ELSE cache_errors[id]]
    /\ UNCHANGED <<cache_pool, default_ids, pools, saved_at>>
    /\ UNCHANGED outsidePlayer

\* the cache loses the entry of the pool
PoolExpire ==
    /\ cache_pool # None
    /\ cache_pool' = None
    /\ UNCHANGED <<now, cache_errors, default_ids, pools, saved_at>>
    /\ UNCHANGED outsidePlayer

PlayerNext ==
    \/ \E r \in Requests : GetOrCreate(r)
    \/ \E r \in Requests : Add(r)
    \/ \E r \in Requests : Save(r)
    \/ Tick
    \/ PoolExpire

PlayerSpec == PlayerInit /\ [][PlayerNext]_vars

(***************************************************************************)
(* Two requests of one process, each running get_or_create(), add(song,    *)
(* message), save() once, their calls interleaved, against one cache that  *)
(* is empty or holds a saved pool with no error yet.                       *)
(***************************************************************************)
RaceInit ==
    /\ NoSearch /\ heap = <<>> /\ calls = NoCalls /\ NoPlaylist /\ NoRace
    /\ now = 0
    /\ cache_pool \in {None, Pickled(PlayerErrorsPool, <<>>)}
    /\ cache_errors = [id \in ErrorIds |-> None]
    /\ default_ids = <<>>
    /\ pools = [r \in Requests |-> None]
    /\ saved_at = [id \in ErrorIds |-> -1]

\* PlayerErrorsPool.get_or_create, lines 287-302, called by racer r
RaceGetOrCreate(r) ==
    /\ race[r].step = "get_or_create"
    /\ IF cache_pool = None
       THEN /\ race' = [race EXCEPT ![r].pool = PlayerErrorsPool,
                                    ![r].step = "add"]
            /\ UNCHANGED <<cache_pool, cache_errors>>
       ELSE LET pool == Clean(cache_pool, cache_errors, now)
            IN  /\ cache_pool' = Pickled(pool, default_ids)
                /\ cache_errors' = SaveErrors(cache_errors, pool.temp_pool, now)
                /\ race' = [race EXCEPT
                               ![r].pool = [pool EXCEPT !.temp_pool = <<>>],
                               ![r].step = "add"]
    /\ UNCHANGED default_ids
    /\ UNCHANGED outsideRace

\* PlayerErrorsPool.add, lines 316-322, called by racer r
RaceAdd(r) ==
    /\ race[r].step = "add"
    /\ LET pool == race[r].pool
       IN  /\ \E song \in Songs :
                race' = [race EXCEPT
                  ![r].pool = [pool EXCEPT
                      !.temp_pool = Append(@, PlayerError(pool.count, song)),
                      !.ids_pool = IF pool.shared THEN @
                                   ELSE Append(@, pool.count),
                      !.count = @ + 1],
                  ![r].id = pool.count,
                  ![r].song = song,
                  ![r].step = "save"]
           /\ default_ids' = IF pool.shared
                             THEN Append(default_ids, pool.count)
                             ELSE default_ids
    /\ UNCHANGED <<cache_pool, cache_errors>>
    /\ UNCHANGED outsideRace

\* PlayerErrorsPool.save, lines 304-314, called by racer r
RaceSave(r) ==
    /\ race[r].step = "save"
    /\ cache_pool' = Pickled(race[r].pool, default_ids)
    /\ cache_errors' = SaveErrors(cache_errors, race[r].pool.temp_pool, now)
    /\ race' = [race EXCEPT ![r].pool.temp_pool = <<>>, ![r].step = "done"]
    /\ UNCHANGED default_ids
    /\ UNCHANGED outsideRace

RaceNext ==
    \E r \in Racers :
        \/ RaceGetOrCreate(r)
        \/ RaceAdd(r)
        \/ RaceSave(r)

RaceSpec == RaceInit /\ [][RaceNext]_vars

(***************************************************************************)
(* The playlist: entries are created and played, the wall clock is set,    *)
(* and the player asks for the next entry.                                 *)
(***************************************************************************)
PlaylistInit ==
    /\ NoSearch /\ heap = <<>> /\ calls = NoCalls /\ NoPlayer /\ NoPlaylist
    /\ NoRace

\* a PlaylistEntry is created and saved (fields of lines 16-23)
CreateEntry ==
    /\ Len(entries) < MaxEntries
    /\ entries' = Append(entries, PlaylistEntry(clock))
    /\ UNCHANGED <<clock, asked, next_entry>>
    /\ UNCHANGED outsidePlaylist

\* the wall clock moves, forward or (when the system time is set) backward
SetClock ==
    /\ \E date \in 0..MaxDate : date # clock /\ clock' = date
    /\ UNCHANGED <<entries, asked, next_entry>>
    /\ UNCHANGED outsidePlaylist

\* an entry is marked as played (field of line 21)
MarkPlayed ==
    /\ \E pk \in DOMAIN entries :
         /\ ~entries[pk].was_played
         /\ entries' = [entries EXCEPT ![pk].was_played = TRUE]
    /\ UNCHANGED <<clock, asked, next_entry>>
    /\ UNCHANGED outsidePlaylist

\* PlaylistEntry.get_next(entry_id), with None (0) or the key of a row
GetNext ==
    /\ \E entry_id \in {0} \cup DOMAIN entries :
         /\ asked' = [entry_id |-> entry_id, table |-> entries]
         /\ next_entry' = get_next(entries, entry_id)
    /\ UNCHANGED <<entries, clock>>
    /\ UNCHANGED outsidePlaylist

PlaylistNext ==
    \/ CreateEntry
    \/ SetClock
    \/ MarkPlayed
    \/ GetNext

PlaylistSpec == PlaylistInit /\ [][PlaylistNext]_vars

(***************************************************************************)
(* Properties.                                                             *)
(***************************************************************************)
\* s without its whitespace
NoSpace(s) == SelectSeq(s, LAMBDA c : ~IsSpace(c))

\* the strings of a list, one after the other
RECURSIVE Flatten(_)
Flatten(list) ==
    IF list = <<>> THEN <<>> ELSE Head(list) \o Flatten(Tail(list))

HasEdgeSpace(token) ==
    token # <<>> /\ (IsSpace(token[1]) \/ IsSpace(token[Len(token)]))

\* the entry of 'result' a match is meant for: its keyword, and "_exact"
\* when the value stood between doubled quotes
FieldOf(m) ==
    Get(Lower(m.keyword) \o <<"s">>
        \o (IF m.group = 2 THEN <<"_","e","x","a","c","t">> ELSE <<>>))

\* the value of a match as parse keeps it
Kept(m) ==
    IF m.group = 2 THEN Strip(m.value) ELSE Strip(DropBackslashes(m.value))

ExactFields == {"artists_exact", "works_exact", "titles_exact"}

ContainsFields == {"artists", "works", "titles"}

\* C1: parse never reaches its 'Inconsistency' ValueError: a request never
\* ends with that exception.
C1_NoInconsistency == ~(pc = "raised" /\ error = "ValueError")

\* C4: in every turn of parse that finds a keyword, the quoting alone
\* decides the list: a value between doubled quotes leaves every contains
\* list as it was and, unless the turn raises, is appended to the exact list
\* of its keyword and to nothing else; a value between single quotes or
\* bare leaves every exact list as it was and, unless the turn raises, is
\* appended to the contains list of its keyword and to nothing else.
C4_QuotingDecidesMode ==
    [][(pc = "parse" /\ Len(matches') = Len(matches) + 1) =>
        LET m == matches'[Len(matches')]
            f == FieldOf(m)
            wrong == IF m.group = 2 THEN ContainsFields ELSE ExactFields
            right == IF m.group = 2 THEN ExactFields ELSE ContainsFields
        IN  /\ \A g \in wrong : result'[g] = result[g]
            /\ \A g \in right \ {f} : result'[g] = result[g]
            /\ \/ pc' = "raised" /\ \A g \in right : result'[g] = result[g]
               \/ /\ f \in right
                  /\ result'[f] = Append(result[f], Kept(m))]_vars

\* a parse that met a doubled-quoted, a quoted and a bare value and stored
\* the first in an exact list, the others in contains lists
C4_Witness ==
    /\ pc = "parsed"
    /\ {matches[i].group : i \in DOMAIN matches} = {2, 3, 4}
    /\ \E f \in ExactFields : result[f] # <<>>
    /\ Cardinality({f \in ContainsFields : result[f] # <<>>}) >= 2

\* C5: when LANGUAGE_MATCHER finds no keyword in the request string, parse
\* returns six empty lists and 'remaining' = split_remaining(the string).
C5_NoKeywordAllRemaining ==
    (pc = "parsed" /\ FirstMatch(input) = None) =>
        /\ \A f \in ExactFields \cup ContainsFields : result[f] = <<>>
        /\ result.remaining = split_remaining(input)

C5_Witness ==
    /\ pc = "parsed" /\ FirstMatch(input) = None
    /\ Len(result.remaining) >= 2

\* the fragments parse met, left to right: the text before each match, then
\* the text left after the last one
Fragments == [i \in DOMAIN matches |-> matches[i].before] \o <<query>>

\* the values parse kept for entry f, in the order of the matches
RECURSIVE KeptFor(_, _)
KeptFor(f, ms) ==
    IF ms = <<>> THEN <<>>
    ELSE (IF FieldOf(Head(ms)) = f THEN <<Kept(Head(ms))>> ELSE <<>>)
         \o KeptFor(f, Tail(ms))

\* C6: when parse returns, the matches and the fragments between them are
\* the request string cut from left to right (up to the whitespace parse
\* strips), 'remaining' holds the tokens of the fragments in that order, and
\* every category list holds its values in the order of their matches.
C6_LeftToRightOrder ==
    pc = "parsed" =>
        /\ NoSpace(input) =
             NoSpace(Flatten([i \in DOMAIN matches |->
                                 matches[i].before \o matches[i].text])
                     \o query)
        /\ result.remaining =
             Flatten([i \in DOMAIN Fragments |-> split_remaining(Fragments[i])])
        /\ \A f \in ExactFields \cup ContainsFields :
             result[f] = KeptFor(f, matches)

\* a parse of free text, keyword, free text, keyword, free text, with two
\* values in one list
C6_Witness ==
    /\ pc = "parsed"
    /\ Len(matches) >= 2
    /\ Len(SelectSeq(Fragments, LAMBDA s : Strip(s) # <<>>)) >= 3
    /\ \E f \in ContainsFields : Len(result[f]) >= 2

(***************************************************************************)
(* Properties of SongListView.get_queryset.                                *)
(***************************************************************************)
\* a search of the song view has returned
Searched == pc = "done" /\ view = "song" /\ query_parsed # None

\* the filter() calls of the chain, in order
Passes == SelectSeq(query_set, LAMBDA o : o.op = "filter")

\* the filter() calls after the first
LaterPasses == Tail(Passes)

\* how many times x occurs in the list
Count(list, x) == Cardinality({i \in DOMAIN list : list[i] = x})

\* the predicate of each artist term and tag term of the parsed query
MultiTerms ==
    [i \in DOMAIN query_parsed.artist.contains |->
        Leaf("artists__name__icontains", query_parsed.artist.contains[i])]
    \o [i \in DOMAIN query_parsed.artist.exact |->
        Leaf("artists__name__iexact", query_parsed.artist.exact[i])]
    \o [i \in DOMAIN query_parsed.tag |->
        Leaf("tags__name", query_parsed.tag[i])]

\* C2: after a search, the passes that follow the conjunctive one are as
\* many as the artist and tag terms, each is the bare predicate of one term
\* (no connector), and each term has as many passes as it has occurrences.
C2_OnePassPerMultiTerm ==
    Searched =>
        /\ Len(LaterPasses) = Len(MultiTerms)
        /\ \A i \in DOMAIN LaterPasses :
             /\ LaterPasses[i].q.kind = "leaf"
             /\ Count(LaterPasses, LaterPasses[i])
                  = Count(MultiTerms, LaterPasses[i].q)

\* a search with an artist term, a second artist term and a tag term
C2_Witness ==
    /\ Searched
    /\ Len(query_parsed.artist.contains) + Len(query_parsed.artist.exact) >= 2
    /\ Len(query_parsed.tag) >= 1
    /\ Len(LaterPasses) >= 3

\* q is among the conjuncts of a conjunction of two groups or more
MergedIn(q, conj) ==
    /\ Len(Children(conj, "and")) >= 2
    /\ \E i \in DOMAIN Children(conj, "and") : Children(conj, "and")[i] = q

\* C3: after a search, the group of every 'remaining' term (it matches the
\* artist names among other fields) is a pass of its own and is not merged
\* with other groups in a conjunctive pass.  (Stated for the searches whose
\* terms all come from parse: no tag and no work type term.)
C3_RemainingIsolated ==
    (Searched /\ query_parsed.tag = <<>> /\ query_parsed.work_type = <<>>) =>
        \A i \in DOMAIN query_parsed.remaining :
            LET group == RemainGroup(query_parsed.remaining[i])
            IN  /\ \E j \in DOMAIN Passes : Passes[j].q = group
                /\ \A j \in DOMAIN Passes : ~MergedIn(group, Passes[j].q)

\* the token tag:favorite and the value Opening Theme
TagFavorite == <<"t","a","g",":","f","a","v","o","r","i","t","e">>

OpeningTheme == <<"O","p","e","n","i","n","g"," ","T","h","e","m","e">>

Foo == <<"f","o","o">>

\* the search of E2EQuery has returned
E2ESearched == Searched /\ input = E2EQuery

C8_PlanOrder ==
    Searched =>
        LET res == query_parsed
            ac == res.artist.contains
            ae == res.artist.exact
            first == Len(SongsFor(is_manager)) + 1
            n == Len(ac) + Len(ae) + Len(res.tag)
        IN  /\ Len(query_set) = first + n + 2
            /\ SubSeq(query_set, 1, first - 1) = SongsFor(is_manager)
            /\ query_set[first] = Op("filter", FilterQuery(QueryList(res)))
            /\ \A i \in DOMAIN ac :
                 query_set[first + i] =
                    Op("filter", Leaf("artists__name__icontains", ac[i]))
            /\ \A i \in DOMAIN ae :
                 query_set[first + Len(ac) + i] =
                    Op("filter", Leaf("artists__name__iexact", ae[i]))
            /\ \A i \in DOMAIN res.tag :
                 query_set[first + Len(ac) + Len(ae) + i] =
                    Op("filter", Leaf("tags__name", res.tag[i]))
            /\ query_set[first + n + 1].op = "distinct"
            /\ query_set[first + n + 2].op = "order_by"

\* a search with two single groups, two artist terms and two tags
C8_Witness ==
    /\ Searched
    /\ Len(Children(Passes[1].q, "and")) >= 2
    /\ Len(query_parsed.artist.contains) >= 1
    /\ Len(query_parsed.artist.exact) >= 1
    /\ Len(query_parsed.tag) >= 2

\* the lookups through the many-to-many relations of a song to its artists
\* and tags
MultiLookups ==
    {"artists__name__icontains", "artists__name__iexact", "tags__name"}

RECURSIVE TouchesMulti(_)
TouchesMulti(q) ==
    \/ q.kind = "leaf" /\ q.lookup \in MultiLookups
    \/ \E i \in DOMAIN q.args : TouchesMulti(q.args[i])

\* C9: when the song view has returned and some filter() of its chain goes
\* through the artists or the tags of the songs, the chain has a distinct()
\* after its last filter().
C9_DistinctAfterMulti ==
    (pc = "done" /\ view = "song") =>
        \A i \in DOMAIN query_set :
            (query_set[i].op = "filter" /\ TouchesMulti(query_set[i].q)) =>
                \E d \in DOMAIN query_set :
                    /\ query_set[d].op = "distinct"
                    /\ \A j \in DOMAIN query_set :
                         query_set[j].op = "filter" => j < d

\* a search that made a pass on an artist term
C9_Witness ==
    /\ Searched
    /\ Len(LaterPasses) >= 1
    /\ \E d \in DOMAIN query_set : query_set[d].op = "distinct"

(***************************************************************************)
(* Properties of split_remaining, on the view that hands it the whole      *)
(* request string (ArtistListView).                                        *)
(***************************************************************************)
\* split_remaining(input) has returned its tokens
Tokenized == pc = "done" /\ view = "artist" /\ query_parsed # None

\* the characters of the tokens are those of the string, in its order,
\* less the quotes, the backslashes and the whitespace
InSourceOrder(tokens, string) ==
    NoSpace(Flatten(tokens)) =
        NoSpace(SelectSeq(string, LAMBDA c : c # "\"" /\ c # "\\"))

\* token is what stands between an opening and the next closing quote of
\* the string, less the backslashes
QuotedIn(token, string) ==
    \E a, b \in DOMAIN string :
        /\ a < b /\ string[a] = "\"" /\ string[b] = "\""
        /\ \A i \in (a + 1)..(b - 1) : string[i] # "\""
        /\ DropBackslashes(Slice(string, a + 1, b - 1)) = token

\* C10 as claimed: every token is non-empty, has no whitespace at either
\* end, and the tokens are in the order of the string.
C10_AsClaimed ==
    Tokenized =>
        /\ \A i \in DOMAIN query_parsed.remaining :
             /\ query_parsed.remaining[i] # <<>>
             /\ ~HasEdgeSpace(query_parsed.remaining[i])
        /\ InSourceOrder(query_parsed.remaining, input)

\* C10 amended: every token is non-empty, the tokens are in the order of
\* the string, and a token has whitespace at an end only when it is the
\* content of a closed double-quoted region, which is kept as typed.
C10_TokensTrimmedUnlessQuoted ==
    Tokenized =>
        /\ \A i \in DOMAIN query_parsed.remaining :
             /\ query_parsed.remaining[i] # <<>>
             /\ HasEdgeSpace(query_parsed.remaining[i]) =>
                  QuotedIn(query_parsed.remaining[i], input)
        /\ InSourceOrder(query_parsed.remaining, input)

\* a string that gives a quoted token kept with its whitespace and a
\* trimmed token
C10_Witness ==
    /\ Tokenized
    /\ \E i, j \in DOMAIN query_parsed.remaining :
         /\ HasEdgeSpace(query_parsed.remaining[i])
         /\ ~HasEdgeSpace(query_parsed.remaining[j])

(***************************************************************************)
(* Further properties of parse and split_remaining.                        *)
(***************************************************************************)
\* C11: parse terminates on every request string: a turn of its loop that
\* finds a keyword and goes on leaves a string strictly shorter than the one
\* it scanned and never returns; the turn that finds no keyword ends the
\* loop, adding the tokens of the string left to 'remaining' and nothing
\* else; and every call of parse ends, by its return or by an exception.
C11_ParseTerminates ==
    /\ [][(pc = "parse" /\ pc' = "parse") => Len(query') < Len(query)]_vars
    /\ [][(pc = "parse" /\ FirstMatch(query) # None) => pc' # "parsed"]_vars
    /\ [][(pc = "parse" /\ FirstMatch(query) = None) =>
            /\ pc' = "parsed"
            /\ result'.remaining = result.remaining \o split_remaining(query)
            /\ \A f \in ExactFields \cup ContainsFields :
                 result'[f] = result[f]]_vars
    /\ (pc = "parse") ~> (pc \in {"parsed", "raised"})

\* a parse that made two turns on keywords and then tokenized what was
\* left
C11_Witness ==
    /\ pc = "parsed"
    /\ Len(matches) >= 2
    /\ split_remaining(query) # <<>>

\* the tokens a call of split_remaining has returned: those of the artist
\* view, or those parse gathered in 'remaining'
ReturnedTokens ==
    IF Tokenized THEN query_parsed.remaining
    ELSE IF pc = "parsed" THEN result.remaining
    ELSE <<>>

\* no whitespace and no double quote
Plain(token) == \A i \in DOMAIN token : ~IsSpace(token[i]) /\ token[i] # "\""

\* C12: every token split_remaining has returned that holds no whitespace
\* and no double quote is tokenized again into itself alone.
C12_TokenizerIdempotent ==
    \A i \in DOMAIN ReturnedTokens :
        Plain(ReturnedTokens[i]) =>
            split_remaining(ReturnedTokens[i]) = <<ReturnedTokens[i]>>

\* a call that returned a token with whitespace in it and a token without
C12_Witness ==
    /\ Tokenized
    /\ \E i, j \in DOMAIN ReturnedTokens :
         /\ Plain(ReturnedTokens[i])
         /\ ~Plain(ReturnedTokens[j])

\* the places of s where a space follows a backslash
EscapedSpaces(s) == {i \in 2..Len(s) : s[i] = " " /\ s[i - 1] = "\\"}

\* s[j] is a space that no backslash precedes
PlainSpace(s, j) == s[j] = " " /\ (j = 1 \/ s[j - 1] # "\\")

NoQuote(s) == \A i \in DOMAIN s : s[i] # "\""

\* the piece of s around place i that plain spaces and the ends of s bound
RunAround(s, i) ==
    LET starts == {j \in 1..i : j = 1 \/ PlainSpace(s, j - 1)}
        stops == {j \in i..Len(s) : j = Len(s) \/ PlainSpace(s, j + 1)}
        a == CHOOSE j \in starts : \A k \in starts : k <= j
        b == CHOOSE j \in stops : \A k \in stops : j <= k
    IN  Slice(s, a, b)

\* the matches of a bare value with an escaped space in it
EscapedValues ==
    {j \in DOMAIN matches :
        matches[j].group = 4 /\ EscapedSpaces(matches[j].value) # {}}

HelloWorld == <<"h","e","l","l","o"," ","w","o","r","l","d">>

KeptJoined(piece, tokens) ==
    LET kept == Strip(DropBackslashes(piece))
    IN  kept = <<>> \/ \E k \in DOMAIN tokens : tokens[k] = kept

KeywordTail(s) ==
    {k \in DOMAIN KEYWORDS :
        LET t == Strip(s)
            n == Len(KEYWORDS[k])
        IN  /\ Len(t) >= n + 1
            /\ t[Len(t)] = ":"
            /\ \A j \in 1..n :
                 SameLetter(t[Len(t) - n - 1 + j], KEYWORDS[k][j])}

\* that keyword and its colon, as typed
TailOf(s) ==
    LET k == CHOOSE x \in KeywordTail(s) : TRUE
        t == Strip(s)
    IN  SubSeq(t, Len(t) - Len(KEYWORDS[k]), Len(t))

HasSuffix(x, suffix) ==
    /\ Len(x) >= Len(suffix)
    /\ SubSeq(x, Len(x) - Len(suffix) + 1, Len(x)) = suffix

\* parse has returned on a request string that ends with a keyword and its
\* colon
ParsedKeywordTail == pc = "parsed" /\ KeywordTail(input) # {}

\* no match took the keyword at the end, and the last token of 'remaining'
\* ends with it
TailInRemaining ==
    /\ HasSuffix(Strip(query), TailOf(input))
    /\ result.remaining # <<>>
    /\ HasSuffix(result.remaining[Len(result.remaining)], TailOf(input))

\* the keyword at the end is the end of the bare value of the last match,
\* stored in the list of that match
TailInValue ==
    /\ query = <<>>
    /\ matches # <<>>
    /\ LET m == matches[Len(matches)]
       IN  /\ m.group = 4
           /\ HasSuffix(m.value, TailOf(input))
           /\ FieldOf(m) # ""
           /\ result[FieldOf(m)] # <<>>
           /\ HasSuffix(result[FieldOf(m)][Len(result[FieldOf(m)])],
                        TailOf(input))

Quotes(s) == {i \in DOMAIN s : s[i] = "\""}

\* the last quote of s opens a region that is never closed
OpenQuote(s) == Cardinality(Quotes(s)) % 2 = 1

\* the place of that quote
LastQuote(s) == CHOOSE i \in Quotes(s) : \A j \in Quotes(s) : j <= i

\* the text after it
AfterQuote(s) == Slice(s, LastQuote(s) + 1, Len(s))

\* split_remaining(input) has returned and input has a quote never closed
TokenizedOpenQuote == Tokenized /\ OpenQuote(input)

\* C15 as claimed: the text from a quote never closed to the end of the
\* string is the last token, whatever spaces it holds, and nothing is raised.
C15_AsClaimed ==
    TokenizedOpenQuote =>
        /\ error = ""
        /\ query_parsed.remaining # <<>>
        /\ query_parsed.remaining[Len(query_parsed.remaining)] =
             DropBackslashes(AfterQuote(input))

\* C15 amended: the text from a quote never closed to the end of the
\* string, less its backslashes and stripped, is one token after the tokens
\* of the text before the quote, whatever spaces it holds, or no token when
\* nothing is left of it; nothing is raised.
C15_OpenQuoteToEnd ==
    TokenizedOpenQuote =>
        /\ error = ""
        /\ query_parsed.remaining =
             split_remaining(Slice(input, 1, LastQuote(input) - 1))
             \o (IF Strip(DropBackslashes(AfterQuote(input))) = <<>>
                 THEN <<>>
                 ELSE <<Strip(DropBackslashes(AfterQuote(input)))>>)

\* a string whose quote never closed is followed by two words, kept as one
\* token with the space between them
C15_Witness ==
    /\ TokenizedOpenQuote
    /\ query_parsed.remaining # <<>>
    /\ \E c \in DOMAIN query_parsed.remaining[Len(query_parsed.remaining)] :
         query_parsed.remaining[Len(query_parsed.remaining)][c] = " "
    /\ query_parsed.remaining[Len(query_parsed.remaining)] =
         Strip(DropBackslashes(AfterQuote(input)))

(***************************************************************************)
(* Properties of concurrent calls.                                         *)
(***************************************************************************)
\* what the call c returns or raises when it runs alone
Alone(c) ==
    IF calls[c].fn = "parse" THEN parse(calls[c].input)
    ELSE [result |-> split_remaining(calls[c].input), error |-> ""]

\* C16: however the steps of two calls of parse or split_remaining
\* interleave, the result objects of the two calls are distinct, a call
\* that has returned holds, then and ever after, the result it returns
\* alone, and a call raises exactly when it raises alone.
C16_CallsIsolated ==
    \A c \in Callers :
        /\ \A d \in Callers \ {c} :
             (calls[c].ref # 0 /\ calls[d].ref # 0) =>
                 calls[c].ref # calls[d].ref
        /\ calls[c].pc = "returned" =>
             /\ Alone(c).error = ""
             /\ heap[calls[c].ref] = Alone(c).result
        /\ calls[c].pc = "raised" => Alone(c).error = calls[c].error

\* two calls, the second begun while the first was running, that both
\* returned a list that is not empty
C16_Witness ==
    /\ \A c \in Callers : calls[c].pc = "returned"
    /\ \E c \in Callers : calls[c].overlap
    /\ \A c \in Callers : heap[calls[c].ref] \notin {<<>>, EmptyResult}
    /\ calls[1].input # calls[2].input

(***************************************************************************)
(* Properties of the player errors.                                        *)
(***************************************************************************)
\* C17: an error added to the pool and saved at time t is out of the cache
\* at every time from t + PLAYER_ERROR_TIME_OF_LIFE on: PlayerError.get of
\* its id returns None, whatever calls were made in between.
C17_ErrorExpires ==
    \A id \in ErrorIds :
        (saved_at[id] >= 0 /\ now >= saved_at[id] + PLAYER_ERROR_TIME_OF_LIFE)
            => PlayerErrorGet(cache_errors, id, now) = None

\* C19: no token split_remaining has returned holds a double quote or a
\* backslash.
C19_NoQuoteNoBackslash ==
    \A i \in DOMAIN ReturnedTokens :
        \A j \in DOMAIN ReturnedTokens[i] :
            ReturnedTokens[i][j] \notin {"\"", "\\"}

\* a call on a string with a backslash right after its opening quote, that
\* returned a token
C19_Witness ==
    /\ Tokenized
    /\ Len(input) >= 3
    /\ input[1] = "\"" /\ input[2] = "\\"
    /\ ReturnedTokens # <<>>

\* the free text parse met before match i, the matches left out, leaves a
\* double quote open: the match lies inside a quoted region of free text
InQuotedText(i) ==
    SplitLoop(SplitStart, Flatten(SubSeq(Fragments, 1, i)), 1).in_quotes

\* the tokens of the fragments a to b, each fragment tokenized alone
TokensOf(a, b) ==
    Flatten([k \in 1..(b - a + 1) |-> split_remaining(Fragments[a + k - 1])])

\* C20: a keyword pattern inside a quoted region of free text is taken as a
\* keyword: unless the turn raises, its value is in the list of its keyword
\* and quoting; and when parse returns, 'remaining' holds the tokens of the
\* fragment before it and then those of the fragment after it, each
\* tokenized alone from the unquoted state.
C20_QuotesDoNotShield ==
    \A i \in DOMAIN matches :
        InQuotedText(i) =>
            /\ (pc # "raised" \/ i < Len(matches)) =>
                 \E j \in DOMAIN result[FieldOf(matches[i])] :
                     result[FieldOf(matches[i])][j] = Kept(matches[i])
            /\ pc = "parsed" =>
                 /\ Slice(result.remaining, Len(TokensOf(1, i - 1)) + 1,
                          Len(TokensOf(1, i + 1)))
                      = split_remaining(matches[i].before)
                            \o split_remaining(Fragments[i + 1])
                 /\ \A j \in DOMAIN result.remaining :
                      result.remaining[j] # Strip(matches[i].text)

\* a parse that returned, with a keyword between an opening quote and its
\* closing quote, tokens on both sides of it, which tokenized as one string
\* would have been other tokens
C20_Witness ==
    /\ pc = "parsed"
    /\ \E i \in DOMAIN matches :
         /\ InQuotedText(i)
         /\ split_remaining(matches[i].before) # <<>>
         /\ split_remaining(Fragments[i + 1]) # <<>>
         /\ split_remaining(matches[i].before \o Fragments[i + 1])
              # split_remaining(matches[i].before)
                    \o split_remaining(Fragments[i + 1])

\* the ids of ids are pairwise distinct and each is less than count
DistinctBelow(ids, count) ==
    /\ \A i, j \in DOMAIN ids : i # j => ids[i] # ids[j]
    /\ \A i \in DOMAIN ids : ids[i] < count

\* C21: in every pool a request holds and in the pool of the cache, the ids
\* of ids_pool are pairwise distinct and each is strictly less than count.
C21_IdsDistinctBelowCount ==
    /\ \A r \in Requests :
         pools[r] # None =>
             DistinctBelow(IdsPool(pools[r], default_ids), pools[r].count)
    /\ cache_pool # None =>
         DistinctBelow(cache_pool.ids_pool, cache_pool.count)

\* both racers have returned from save
RaceOver == \A r \in Racers : race[r].step = "done"

\* C22: when both requests have run get_or_create, add and save, their errors
\* have different ids, both ids are in the ids_pool of the cached pool, and
\* the cache holds under each id the error of its request.
C22_BothErrorsKept ==
    RaceOver =>
        /\ race[1].id # race[2].id
        /\ cache_pool # None
        /\ \A r \in Racers :
             /\ \E k \in DOMAIN cache_pool.ids_pool :
                    cache_pool.ids_pool[k] = race[r].id
             /\ PlayerErrorGet(cache_errors, race[r].id, now)
                    = PlayerError(race[r].id, race[r].song)

(***************************************************************************)
(* Properties of the playlist.                                             *)
(***************************************************************************)
\* the entries get_next may return for the last call: unplayed and not the
\* one passed
Candidates == Unplayed(asked.table, asked.entry_id)

\* C18: after a call of get_next, its result is None exactly when no entry
\* is unplayed and different from entry_id; otherwise it is one of those
\* entries, and none of them has an earlier date_created.
C18_NextIsEarliest ==
    asked # None =>
        /\ next_entry = None <=> Candidates = {}
        /\ next_entry # None =>
             /\ next_entry.pk \in Candidates
             /\ \A pk \in Candidates :
                  asked.table[next_entry.pk].date_created
                      <= asked.table[pk].date_created

\* C18, the part that holds: the result is None exactly when no entry is
\* unplayed and different from entry_id; otherwise it is the one of those
\* entries with the least primary key.
C18_NextIsLeastKey ==
    asked # None =>
        /\ next_entry = None <=> Candidates = {}
        /\ next_entry # None =>
             /\ next_entry.pk \in Candidates
             /\ \A pk \in Candidates : next_entry.pk <= pk

====
